---- MODULE Spec2Model ----
(***************************************************************************)
(* A model of the session / retry layer of the Virgin Media Hub 3 client.  *)
(*                                                                         *)
(* src/virginmedia.py defines the current Hub class (retrying _get, login, *)
(* logout, context-manager exit, snmp_get, snmp_walk);                     *)
(* src/virginmedia_router.py is                                            *)
(* the older Hub class without retries.  A program imports one of the two: *)
(* the variable `module` records which, and each module's Hub has its own  *)
(* state variables.                                                        *)
(*                                                                         *)
(* Python's call stack is the variable `stack` (top = last element).  One  *)
(* action is one HTTP exchange of Hub._get together with the whole loop    *)
(* iteration around it, or the code a caller runs when its callee returns  *)
(* or raises.  `ret` carries the pending return value or exception.        *)
(*                                                                         *)
(* The caller takes the result of a finished operation (TakeResult)       *)
(* before it starts the next one.                                          *)
(*                                                                         *)
(* Spec is the Hub under a program that calls its operations; FairSpec     *)
(* adds that a running operation goes on; SpecWalk applies snmp_walk's     *)
(* treatment of a response body to every small body.                       *)
(*                                                                         *)
(* Not tracked: the ':calls' / ':secs' counters of collect_stats and the   *)
(* 'received_http_<status>' counters (written, never read).                *)
(***************************************************************************)
EXTENDS Integers, Sequences, FiniteSets, TLC

VARIABLES
    module,      \* which source module's Hub the program uses
    credential,  \* Hub._credential
    username,    \* Hub._username
    password,    \* Hub._password
    modelname,   \* Hub._modelname
    family,      \* Hub._family
    counters,    \* Hub.counters (the retry counters)
    nonce,       \* Hub._nonce and Hub._nonce_str, made by the constructor
    cache,       \* lru_cache of Hub.snmp_get: the value cached for each OID
    stack,       \* Python call stack of the running operation
    ret,         \* pending / last return value or exception
    wire,        \* last HTTP request sent during the current operation
    faults,      \* number of 401 / 500 responses the router has given
    sleeps,      \* the calls of time.sleep so far: how many, and seconds
    cachedAt,    \* per OID: the credential held when snmp_get cached it
    router,      \* the Hub of virginmedia_router.py
    pure         \* input and result of a function applied on its own

vars == <<module, credential, username, password, modelname, family, nonce,
          counters, cache, stack, ret, wire, faults, sleeps, cachedAt,
          router, pure>>

hubvars == <<credential, username, password, modelname, family, nonce,
             counters, cache, stack, ret, wire, faults, sleeps,
             cachedAt>>

----------------------------------------------------------------------------
(* Bounds of the model *)

\* 401 and 500 responses the router gives during the life of one Hub
MaxFaults == 3

\* largest retry401 / retry500 a direct caller of _get passes
MaxBudget == 2

\* lines of the walk bodies given to snmp_walk on its own
MaxLines == 3

(* Program constants *)

\* default of _get's retry401
Retry401Default == 5

\* default of _get's retry500
Retry500Default == 3

\* a login or logout request sent with the default budget of _get
Retry401AsDefault == Retry401Default

\* retry401 passed by login and logout
Retry401None == 0

\* first backoff sleep of _get, in seconds
SleepBase == 1

----------------------------------------------------------------------------
(* Values *)

None == "None"

Usernames == {"admin", "guest"}
Passwords == {"admin", "secret"}

\* login response bodies that are base64 of a JSON object
Tokens == {"tokA", "tokB"}

\* a body that is not base64-encoded JSON
Junk == "junk"

\* snmpGet bodies: the JSON object mapping the requested OID to "admin",
\* and the one mapping it to "guest"
JsonAdmin == "{oid:admin}"
JsonGuest == "{oid:guest}"

\* a walk body with an injected line and the final "1":"Finish" entry
WalkFinish == "{2:y,Error in OID formatting!,1:Finish}"

\* the OID of authUserName
AuthUserNameOid == "1.3.6.1.4.1.4115.1.20.1.1.5.16.1.2.1"

\* the OIDs a caller looks up with snmp_get
Oids == {AuthUserNameOid}

\* statuses raise_for_status lets through, and statuses it raises for
OkStatuses == {200, 302}
ErrorStatuses == {401, 404, 500}

\* the statuses _get retries
RetriedStatuses == {401, 500}

\* requests.exceptions raised by requests.get itself
TransportErrors == {"ConnectionError", "Timeout"}

NoResp == [status |-> 0, body |-> "", error |-> None]

NoReq == [url |-> "", cookie |-> None, arg |-> <<>>, nonce |-> None,
          first |-> ""]

NoCall == [url |-> "", init401 |-> 0, init500 |-> 0, hist |-> <<>>,
           slept |-> <<>>, c401in |-> 0, c401out |-> 0, credin |-> None,
           relogins |-> 0, relogged |-> None, final |-> 0, error |-> None]

\* what held when the running operation was called
NoCtx == [username |-> None, oid |-> None, credential |-> None,
          cached |-> None,
          session |-> [credential |-> None, username |-> None,
                       password |-> None, modelname |-> None,
                       family |-> None]]

NoRet == [op |-> "", kind |-> "none", by |-> "", exc |-> None,
          resp |-> NoResp, value |-> None, call |-> NoCall, arg |-> <<>>,
          cause |-> None, ctx |-> NoCtx]

\* no function is being applied on its own
NoPure == [fn |-> "", input |-> <<>>, output |-> <<>>, done |-> FALSE]

CounterNames == {"_get_retries_401", "_get_retries_500",
                 "_get_retries_500_sleep_secs"}

----------------------------------------------------------------------------
(* The router, as the client sees it: every request gets a status and a    *)
(* body, or requests.get raises.                                           *)

\* bodies the router may send for a URL with a status that is not an error
Bodies(url) ==
    CASE url = "login"   -> {"", Junk} \cup Tokens
      [] url = "snmpGet" -> {Junk, JsonAdmin, JsonGuest}
      [] url = "walk"    -> {Junk, WalkFinish}
      [] OTHER           -> {""}

Responses(url) ==
    {[status |-> s, body |-> b, error |-> None] :
        s \in OkStatuses, b \in Bodies(url)}
    \cup {[status |-> s, body |-> "", error |-> None] : s \in ErrorStatuses}
    \cup {[status |-> 0, body |-> "", error |-> e] : e \in TransportErrors}

----------------------------------------------------------------------------
(* Python and library semantics used by the Hub *)

\* truth value of a str-or-None object
Truthy(v) == v # None /\ v # ""

\* a raise_for_status that accepted 2xx statuses only
raise_for_status_strict(status) ==
    IF 200 <= status /\ status < 300 THEN None ELSE "HTTPError"

\* requests.Response.raise_for_status: HTTPError for 4xx and 5xx only
raise_for_status(status) ==
    IF 400 <= status /\ status < 600 THEN "HTTPError" ELSE None

\* json.loads(base64.b64decode(content)) succeeds
IsB64Json(content) == content \in Tokens

\* json.loads(base64.b64decode(content)).get(key): the object in "tokA"
\* names the model and the family of the router, the one in "tokB" has
\* neither key
Attr(content, key) ==
    IF content = "tokA"
    THEN (IF key = "modelname" THEN "Hub3" ELSE "Arris")
    ELSE None

\* json.loads(content) succeeds
IsJson(content) == content \in {JsonAdmin, JsonGuest}

\* json.loads(content)[oid] for the requested OID
JsonValue(content) == IF content = JsonAdmin THEN "admin" ELSE "guest"

\* resp.text: the body decoded to str (the characters of an ASCII body)
Text(content) == content

\* the exception raised by `str + bytes` in Python 3
StrPlusBytes == "TypeError"

(* A walk body is modelled by its lines, as jsondata.split("\n") gives    *)
(* them: a line is an entry "key":"value" of the JSON object, or other text *)

\* the line the router injects into walk bodies
ErrorLineText == "Error in OID formatting!"

TextLine(t) == [kind |-> "text", key |-> "", value |-> t]

Entry(k, v) == [kind |-> "entry", key |-> k, value |-> v]

\* jsondata.split("\n") of a body the router sends
Lines(body) ==
    IF body = WalkFinish
    THEN <<Entry("2", "y"), TextLine(ErrorLineText), Entry("1", "Finish")>>
    ELSE <<TextLine(body)>>

\* a filter that dropped every line containing the error text
StripErrorText(lines) ==
    SelectSeq(lines, LAMBDA x : x.value # ErrorLineText)

\* [x for x in lines if x != "Error in OID formatting!"]
StripErrorLines(lines) ==
    SelectSeq(lines, LAMBDA x : x # TextLine(ErrorLineText))

\* json.loads accepts the joined lines: every line is an entry
IsJsonLines(lines) == \A i \in 1..Len(lines) : lines[i].kind = "entry"

\* the dict json.loads builds: the last entry of a key gives its value
JsonObject(lines) ==
    [k \in {lines[i].key : i \in 1..Len(lines)} |->
        lines[CHOOSE i \in 1..Len(lines) :
                 /\ lines[i].key = k
                 /\ \A j \in (i + 1)..Len(lines) : lines[j].key # k].value]

\* `if result.get("1") == "Finish": del result["1"]`
DropFinish(result) ==
    IF "1" \in DOMAIN result /\ result["1"] = "Finish"
    THEN [k \in DOMAIN result \ {"1"} |-> result[k]]
    ELSE result

\* what snmp_walk makes of the lines of a response body
snmp_walk(lines) ==
    IF IsJsonLines(StripErrorLines(lines))
    THEN [error |-> None,
          value |-> DropFinish(JsonObject(StripErrorLines(lines)))]
    ELSE [error |-> "ValueError", value |-> <<>>]

----------------------------------------------------------------------------
(* Stack helpers *)

Top == stack[Len(stack)]

Pop == SubSeq(stack, 1, Len(stack) - 1)

ReplaceTop(f) == [stack EXCEPT ![Len(stack)] = f]

\* nothing returned yet in the running operation
Pending == [NoRet EXCEPT !.op = ret.op, !.ctx = ret.ctx]

\* the operation `op` has just been called
Called(op) == [NoRet EXCEPT !.op = op]

Return(by, call, arg) ==
    [Pending EXCEPT !.kind = "return", !.by = by, !.call = call, !.arg = arg]

Raise(by, exc, call, arg) ==
    [Pending EXCEPT !.kind = "raise", !.by = by, !.exc = exc, !.call = call,
                    !.arg = arg]

----------------------------------------------------------------------------
(* Hub of virginmedia.py *)

is_loggedin == credential # None

\* the fields of the Hub that login assigns
Session ==
    [credential |-> credential, username |-> username, password |-> password,
     modelname |-> modelname, family |-> family]

\* what a _get that never attached the cookie would send
CookiesOmitted(cred) == None

\* the cookies argument of requests.get in _get
Cookies(cred) == IF Truthy(cred) THEN cred ELSE None

\* the endpoints whose call site passes the nonce: login (params=
\* self._params(...)), logout (params=self._nonce), snmp_gets and snmp_walk
\* (self._nonce_str in the URL)
NonceUrls == {"login", "logout", "snmpGet", "walk"}

\* a Hub that made a new nonce for every request
NonceParamFresh(url) == IF url \in NonceUrls THEN "fresh" ELSE None

\* the nonce pair a call site of _get puts in the request, if any
NonceParam(url) == IF url \in NonceUrls THEN nonce ELSE None

\* a new activation of _get(url, retry401, retry500, params=...)
GetFrame(url, r401, r500, arg) ==
    [fn |-> "_get", pc |-> "request", url |-> url, retry401 |-> r401,
     retry500 |-> r500, sleep |-> SleepBase, arg |-> arg,
     nonce |-> NonceParam(url),
     call |-> [NoCall EXCEPT !.url = url, !.init401 = r401, !.init500 = r500,
                             !.c401in = counters["_get_retries_401"],
                             !.credin = credential]]

\* `retry401 > 0 and self.is_loggedin`, after the decrement
Retry401Allowed(r401) == r401 > 0 /\ is_loggedin

\* a 500 test that ignored the budget
Retry500AllowedAlways(r500) == TRUE

\* `retry500 > 0`, after the decrement
Retry500Allowed(r500) == r500 > 0

\* `sleep *= 2`
NextSleep(sleep) == sleep * 2

\* what _get does after the loop with the final response
FinalError(status) ==
    IF raise_for_status(status) # None THEN raise_for_status(status)
    ELSE IF status = 401 THEN "AccessDenied"
    ELSE None

\* a login that used "admin" whenever no user name is given
LoginEnterDefaultAdmin(stk, u, p) ==
    IF Truthy(u)
    THEN stk \o <<[fn |-> "login", pc |-> "get", username |-> u,
                   password |-> p],
                  GetFrame("login", Retry401None, Retry500Default, <<u, p>>)>>
    ELSE stk \o <<[fn |-> "login", pc |-> "get", username |-> "admin",
                   password |-> p],
                  GetFrame("login", Retry401None, Retry500Default,
                           <<"admin", p>>)>>

\* the call stack after `stk` calls login(u, p), up to its first request
LoginEnter(stk, u, p) ==
    IF Truthy(u)
    THEN stk \o <<[fn |-> "login", pc |-> "get", username |-> u,
                   password |-> p],
                  GetFrame("login", Retry401None, Retry500Default, <<u, p>>)>>
    ELSE IF cache[AuthUserNameOid] # None
    THEN stk \o <<[fn |-> "login", pc |-> "get",
                   username |-> cache[AuthUserNameOid], password |-> p],
                  GetFrame("login", Retry401None, Retry500Default,
                           <<cache[AuthUserNameOid], p>>)>>
    ELSE stk \o <<[fn |-> "login", pc |-> "resolve", username |-> u,
                   password |-> p],
                  [fn |-> "snmp_get", pc |-> "get", oid |-> AuthUserNameOid],
                  GetFrame("snmpGet", Retry401Default, Retry500Default,
                           <<AuthUserNameOid>>)>>

\* the record of a finished activation of _get
FinishCall(f, final, error) ==
    [f.call EXCEPT !.c401out = counters["_get_retries_401"],
                   !.final = final, !.error = error]

\* one iteration of the loop of _get: send the request, get response r
Request(r) ==
    /\ module = "virginmedia"
    /\ stack # <<>>
    /\ Top.fn = "_get"
    /\ Top.pc = "request"
    /\ r.status \in RetriedStatuses => faults < MaxFaults
    /\ faults' = IF r.status \in RetriedStatuses THEN faults + 1 ELSE faults
    /\ LET f == Top
           s == r.status
           g == [f EXCEPT !.call.hist = Append(f.call.hist, s)]
           r401 == IF s = 401 THEN f.retry401 - 1 ELSE f.retry401
           relogin == s = 401 /\ Retry401Allowed(r401)
           r500 == IF ~relogin /\ s = 500 THEN f.retry500 - 1 ELSE f.retry500
           backoff == ~relogin /\ s = 500 /\ Retry500Allowed(r500)
       IN  /\ wire' = [url |-> f.url, cookie |-> Cookies(credential),
                       arg |-> f.arg, nonce |-> f.nonce,
                       first |-> IF wire.first = "" THEN f.url
                                 ELSE wire.first]
           /\ IF r.error # None
              THEN /\ stack' = Pop
                   /\ ret' = Raise("_get", r.error, FinishCall(f, 0, r.error),
                                   <<>>)
                   /\ UNCHANGED <<counters, sleeps>>
              ELSE IF relogin
              THEN /\ stack' = LoginEnter(
                          ReplaceTop([g EXCEPT !.pc = "relogin",
                                               !.retry401 = r401,
                                               !.call.relogins = @ + 1]),
                          username, password)
                   /\ ret' = Pending
                   /\ UNCHANGED <<counters, sleeps>>
              ELSE IF backoff
              THEN /\ stack' = ReplaceTop(
                          [g EXCEPT !.retry401 = r401, !.retry500 = r500,
                                    !.sleep = NextSleep(f.sleep),
                                    !.call.slept = Append(f.call.slept,
                                                          f.sleep)])
                   /\ sleeps' = [count |-> sleeps.count + 1,
                                  secs |-> sleeps.secs + f.sleep]
                   /\ counters' =
                         [counters EXCEPT
                            !["_get_retries_500"] = @ + 1,
                            !["_get_retries_500_sleep_secs"] =
                                @ + NextSleep(f.sleep)]
                   /\ ret' = Pending
              ELSE /\ stack' = Pop
                   /\ ret' = IF FinalError(s) # None
                             THEN Raise("_get", FinalError(s),
                                        FinishCall(g, s, None), <<>>)
                             ELSE [Return("_get", FinishCall(g, s, None), <<>>)
                                      EXCEPT !.resp = r]
                   /\ UNCHANGED <<counters, sleeps>>
    /\ UNCHANGED <<module, nonce, pure, cachedAt, modelname, family,
                   credential, username, password, cache, router>>

\* a _get whose re-login restarted the backoff at its base
GetReloggedResetsSleep ==
    /\ module = "virginmedia"
    /\ stack # <<>>
    /\ Top.fn = "_get"
    /\ Top.pc = "relogin"
    /\ ret.kind # "none"
    /\ LET f == Top
       IN  IF ret.kind = "raise"
           THEN /\ stack' = Pop
                /\ ret' = [ret EXCEPT !.by = "_get",
                                      !.call = FinishCall(f, 0, None),
                                      !.arg = <<>>]
                /\ UNCHANGED counters
           ELSE /\ counters' = [counters EXCEPT !["_get_retries_401"] = @ + 1]
                /\ stack' = ReplaceTop(
                       [f EXCEPT !.pc = "request", !.sleep = SleepBase,
                                 !.call.relogged = Text(ret.resp.body)])
                /\ ret' = Pending
    /\ UNCHANGED <<module, nonce, pure, cachedAt, modelname, family, sleeps,
                   credential, username, password, cache, wire,
                   faults, router>>

\* a _get that counted the retry although its re-login failed
GetReloggedCountsFailure ==
    /\ module = "virginmedia"
    /\ stack # <<>>
    /\ Top.fn = "_get"
    /\ Top.pc = "relogin"
    /\ ret.kind # "none"
    /\ LET f == Top
       IN  IF ret.kind = "raise"
           THEN /\ counters' = [counters EXCEPT !["_get_retries_401"] = @ + 1]
                /\ stack' = Pop
                /\ ret' = [ret EXCEPT !.by = "_get",
                                      !.call = FinishCall(f, 0, None),
                                      !.arg = <<>>]
           ELSE /\ counters' = [counters EXCEPT !["_get_retries_401"] = @ + 1]
                /\ stack' = ReplaceTop(
                       [f EXCEPT !.pc = "request",
                                 !.call.relogged = Text(ret.resp.body)])
                /\ ret' = Pending
    /\ UNCHANGED <<module, nonce, pure, cachedAt, modelname, family, sleeps,
                   credential, username, password, cache, wire,
                   faults, router>>

\* _get after the login it called on a 401 has returned or raised
GetRelogged ==
    /\ module = "virginmedia"
    /\ stack # <<>>
    /\ Top.fn = "_get"
    /\ Top.pc = "relogin"
    /\ ret.kind # "none"
    /\ LET f == Top
       IN  IF ret.kind = "raise"
           THEN /\ stack' = Pop
                /\ ret' = [ret EXCEPT !.by = "_get",
                                      !.call = FinishCall(f, 0, None),
                                      !.arg = <<>>]
                /\ UNCHANGED counters
           ELSE /\ counters' = [counters EXCEPT !["_get_retries_401"] = @ + 1]
                /\ stack' = ReplaceTop(
                       [f EXCEPT !.pc = "request",
                                 !.call.relogged = Text(ret.resp.body)])
                /\ ret' = Pending
    /\ UNCHANGED <<module, nonce, pure, cachedAt, modelname, family, sleeps,
                   credential, username, password, cache, wire,
                   faults, router>>

\* a snmp_get that sent its request again after a body it could not decode
SnmpGetResumeRetry ==
    /\ module = "virginmedia"
    /\ stack # <<>>
    /\ Top.fn = "snmp_get"
    /\ ret.kind # "none"
    /\ IF ret.kind = "raise"
       THEN /\ stack' = Pop
            /\ ret' = [ret EXCEPT !.by = "snmp_get"]
            /\ UNCHANGED cache
       ELSE IF ~IsJson(ret.resp.body)
       THEN /\ stack' = Append(stack,
                               GetFrame("snmpGet", Retry401Default,
                                        Retry500Default, <<Top.oid>>))
            /\ ret' = Pending
            /\ UNCHANGED cache
       ELSE /\ stack' = Pop
            /\ ret' = [Return("snmp_get", ret.call, <<>>)
                          EXCEPT !.value = JsonValue(ret.resp.body)]
            /\ cache' = [cache EXCEPT ![Top.oid] = JsonValue(ret.resp.body)]
    /\ cachedAt' = IF cache' # cache
                   THEN [cachedAt EXCEPT ![Top.oid] = credential]
                   ELSE cachedAt
    /\ UNCHANGED <<module, nonce, pure, modelname, family, sleeps,
                   credential, username, password, counters, wire,
                   faults, router>>

\* snmp_get (with the snmp_gets it calls) after its _get returned or raised
SnmpGetResume ==
    /\ module = "virginmedia"
    /\ stack # <<>>
    /\ Top.fn = "snmp_get"
    /\ ret.kind # "none"
    /\ stack' = Pop
    /\ IF ret.kind = "raise"
       THEN /\ ret' = [ret EXCEPT !.by = "snmp_get"]
            /\ UNCHANGED cache
       ELSE IF ~IsJson(ret.resp.body)
       THEN /\ ret' = Raise("snmp_get", "ValueError", ret.call, <<>>)
            /\ UNCHANGED cache
       ELSE /\ ret' = [Return("snmp_get", ret.call, <<>>)
                          EXCEPT !.value = JsonValue(ret.resp.body)]
            /\ cache' = [cache EXCEPT ![Top.oid] = JsonValue(ret.resp.body)]
    /\ cachedAt' = IF cache' # cache
                   THEN [cachedAt EXCEPT ![Top.oid] = credential]
                   ELSE cachedAt
    /\ UNCHANGED <<module, nonce, pure, modelname, family, sleeps,
                   credential, username, password, counters, wire,
                   faults, router>>

\* snmp_walk after its _get('walk?oids=...') returned or raised
SnmpWalkResume ==
    /\ module = "virginmedia"
    /\ stack # <<>>
    /\ Top.fn = "snmp_walk"
    /\ ret.kind # "none"
    /\ stack' = Pop
    /\ ret' = IF ret.kind = "raise"
              THEN [ret EXCEPT !.by = "snmp_walk"]
              ELSE IF snmp_walk(Lines(Text(ret.resp.body))).error # None
              THEN Raise("snmp_walk",
                         snmp_walk(Lines(Text(ret.resp.body))).error,
                         ret.call, <<>>)
              ELSE [Return("snmp_walk", ret.call, <<>>) EXCEPT
                       !.value = snmp_walk(Lines(Text(ret.resp.body))).value]
    /\ UNCHANGED <<module, nonce, pure, cachedAt, modelname, family, sleeps,
                   credential, username, password, counters, cache, wire,
                   faults, router>>

\* login after `username = self.authUserName` returned or raised
LoginResolved ==
    /\ module = "virginmedia"
    /\ stack # <<>>
    /\ Top.fn = "login"
    /\ Top.pc = "resolve"
    /\ ret.kind # "none"
    /\ LET f == Top
       IN  IF ret.kind = "raise"
           THEN /\ stack' = Pop
                /\ ret' = [ret EXCEPT !.by = "login",
                                      !.arg = <<f.username, f.password>>]
           ELSE /\ stack' = Append(
                       ReplaceTop([f EXCEPT !.pc = "get",
                                            !.username = ret.value]),
                       GetFrame("login", Retry401None, Retry500Default,
                                <<ret.value, f.password>>))
                /\ ret' = Pending
    /\ UNCHANGED <<module, nonce, pure, cachedAt, modelname, family, sleeps,
                   credential, username, password, counters, cache,
                   wire, faults, router>>

\* the exception that leaves login when the body cannot be decoded: the
\* handler evaluates "Cannot decode json response:\n" + resp.content, and
\* resp.content is bytes
UndecodableError == StrPlusBytes

\* what a bug storing the default password instead of the one used would do
LoginStoresDefaultPassword(content, u, p) ==
    [credential |-> Text(content), username |-> u, password |-> "admin",
     modelname |-> Attr(content, "modelname"),
     family |-> Attr(content, "family")]

\* the session fields login assigns on success
LoginStores(content, u, p) ==
    [credential |-> Text(content), username |-> u, password |-> p,
     modelname |-> Attr(content, "modelname"),
     family |-> Attr(content, "family")]

\* a login that stored the response text before decoding it
LoginResumeStoresEarly ==
    /\ module = "virginmedia"
    /\ stack # <<>>
    /\ Top.fn = "login"
    /\ Top.pc = "get"
    /\ ret.kind # "none"
    /\ stack' = Pop
    /\ LET f == Top
           a == <<f.username, f.password>>
           content == ret.resp.body
       IN  IF ret.kind = "raise"
           THEN /\ ret' = [ret EXCEPT !.by = "login", !.arg = a]
                /\ UNCHANGED <<credential, username, password, modelname,
                               family>>
           ELSE IF content = ""
           THEN /\ ret' = [Raise("login", "LoginFailed", ret.call, a)
                              EXCEPT !.resp = ret.resp]
                /\ UNCHANGED <<credential, username, password, modelname,
                               family>>
           ELSE IF ~IsB64Json(content)
           THEN /\ ret' = [Raise("login", UndecodableError, ret.call, a)
                              EXCEPT !.resp = ret.resp]
                /\ credential' = Text(content)
                /\ UNCHANGED <<username, password, modelname, family>>
           ELSE /\ credential' =
                      LoginStores(content, f.username, f.password).credential
                /\ username' =
                      LoginStores(content, f.username, f.password).username
                /\ password' =
                      LoginStores(content, f.username, f.password).password
                /\ modelname' =
                      LoginStores(content, f.username, f.password).modelname
                /\ family' =
                      LoginStores(content, f.username, f.password).family
                /\ ret' = [Return("login", ret.call, a)
                              EXCEPT !.resp = ret.resp]
    /\ UNCHANGED <<module, nonce, pure, cachedAt, sleeps,
                   counters, cache, wire, faults, router>>

\* login after its _get('login', retry401=0, ...) returned or raised
LoginResume ==
    /\ module = "virginmedia"
    /\ stack # <<>>
    /\ Top.fn = "login"
    /\ Top.pc = "get"
    /\ ret.kind # "none"
    /\ stack' = Pop
    /\ LET f == Top
           a == <<f.username, f.password>>
           content == ret.resp.body
       IN  IF ret.kind = "raise"
           THEN /\ ret' = [ret EXCEPT !.by = "login", !.arg = a]
                /\ UNCHANGED <<credential, username, password, modelname,
                               family>>
           ELSE IF content = ""
           THEN /\ ret' = [Raise("login", "LoginFailed", ret.call, a)
                              EXCEPT !.resp = ret.resp]
                /\ UNCHANGED <<credential, username, password, modelname,
                               family>>
           ELSE IF ~IsB64Json(content)
           THEN /\ ret' = [Raise("login", UndecodableError, ret.call, a)
                              EXCEPT !.resp = ret.resp]
                /\ UNCHANGED <<credential, username, password, modelname,
                               family>>
           ELSE /\ credential' =
                      LoginStores(content, f.username, f.password).credential
                /\ username' =
                      LoginStores(content, f.username, f.password).username
                /\ password' =
                      LoginStores(content, f.username, f.password).password
                /\ modelname' =
                      LoginStores(content, f.username, f.password).modelname
                /\ family' =
                      LoginStores(content, f.username, f.password).family
                /\ ret' = [Return("login", ret.call, a)
                              EXCEPT !.resp = ret.resp]
    /\ UNCHANGED <<module, nonce, pure, cachedAt, sleeps,
                   counters, cache, wire, faults, router>>

\* the call stack after `stk` calls logout() while logged in
LogoutEnter(stk) ==
    stk \o <<[fn |-> "logout", pc |-> "get"],
             GetFrame("logout", Retry401None, Retry500Default, <<>>)>>

\* what logout would do with the clearing after the try block instead of
\* in a finally clause
LogoutResumeNoFinally ==
    /\ module = "virginmedia"
    /\ stack # <<>>
    /\ Top.fn = "logout"
    /\ ret.kind # "none"
    /\ stack' = Pop
    /\ IF ret.kind = "raise"
       THEN /\ ret' = [ret EXCEPT !.by = "logout", !.cause = ret.exc]
            /\ UNCHANGED <<credential, username, password>>
       ELSE /\ ret' = Return("logout", ret.call, <<>>)
            /\ credential' = None
            /\ username' = None
            /\ password' = None
    /\ UNCHANGED <<module, nonce, pure, cachedAt, modelname, family, sleeps,
                   counters, cache, wire, faults, router>>

\* what logout would do if it ignored a failure of the notification
LogoutResumeSwallow ==
    /\ module = "virginmedia"
    /\ stack # <<>>
    /\ Top.fn = "logout"
    /\ ret.kind # "none"
    /\ stack' = Pop
    /\ credential' = None
    /\ username' = None
    /\ password' = None
    /\ ret' = Return("logout", ret.call, <<>>)
    /\ UNCHANGED <<module, nonce, pure, cachedAt, modelname, family, sleeps,
                   counters, cache, wire, faults, router>>

\* a logout that also emptied the cache of snmp_get
LogoutResumeClearsCache ==
    /\ module = "virginmedia"
    /\ stack # <<>>
    /\ Top.fn = "logout"
    /\ ret.kind # "none"
    /\ stack' = Pop
    /\ credential' = None
    /\ username' = None
    /\ password' = None
    /\ cache' = [o \in Oids |-> None]
    /\ ret' = IF ret.kind = "raise"
              THEN [ret EXCEPT !.by = "logout", !.cause = ret.exc]
              ELSE Return("logout", ret.call, <<>>)
    /\ UNCHANGED <<module, nonce, pure, cachedAt, modelname, family, sleeps,
                   counters, wire, faults, router>>

\* logout after its _get('logout', retry401=0, ...) returned or raised:
\* the finally clause, then the return or the exception
LogoutResume ==
    /\ module = "virginmedia"
    /\ stack # <<>>
    /\ Top.fn = "logout"
    /\ ret.kind # "none"
    /\ stack' = Pop
    /\ credential' = None
    /\ username' = None
    /\ password' = None
    /\ ret' = IF ret.kind = "raise"
              THEN [ret EXCEPT !.by = "logout", !.cause = ret.exc]
              ELSE Return("logout", ret.call, <<>>)
    /\ UNCHANGED <<module, nonce, pure, cachedAt, modelname, family, sleeps,
                   counters, cache, wire, faults, router>>

\* `except requests.exceptions.HTTPError` in __exit__
ExitCatches(exc) == exc = "HTTPError"

\* what __exit__(exc_type, ...) does with the outcome r of its logout()
ExitOutcome(exc_type, r) ==
    IF r.kind = "raise" /\ ~(ExitCatches(r.exc) /\ exc_type # None)
    THEN [r EXCEPT !.by = "__exit__", !.arg = <<exc_type>>,
                   !.cause = r.exc]
    ELSE [Return("__exit__", r.call, <<exc_type>>)
             EXCEPT !.cause = r.exc]

\* __exit__ after its logout() returned or raised
ExitResume ==
    /\ module = "virginmedia"
    /\ stack # <<>>
    /\ Top.fn = "__exit__"
    /\ ret.kind # "none"
    /\ stack' = Pop
    /\ ret' = ExitOutcome(Top.exc_type, ret)
    /\ UNCHANGED <<module, nonce, pure, cachedAt, modelname, family, sleeps,
                   credential, username, password, counters, cache,
                   wire, faults, router>>

----------------------------------------------------------------------------
(* Operations the program starts on the Hub *)

\* no operation is running and the result of the last one has been taken
Idle == module = "virginmedia" /\ stack = <<>> /\ ret.kind = "none"

\* the caller of a finished operation takes its result or its exception
TakeResult ==
    /\ module = "virginmedia"
    /\ stack = <<>>
    /\ ret.kind # "none"
    /\ ret' = NoRet
    /\ wire' = NoReq
    /\ UNCHANGED <<module, nonce, pure, cachedAt, modelname, family, sleeps,
                   credential, username, password, counters, cache, stack,
                   faults, router>>

\* budgets a caller of _get passes: the defaults, or small explicit ones
GetBudgets ==
    ((0 .. MaxBudget) \X (0 .. MaxBudget))
    \cup {<<Retry401Default, Retry500Default>>}

\* hub._get(url, retry401=r401, retry500=r500), e.g. hub.connectionType
CallGet(r401, r500) ==
    /\ Idle
    /\ stack' = <<GetFrame("checkConnType", r401, r500, <<>>)>>
    /\ ret' = Called("_get")
    /\ wire' = NoReq
    /\ UNCHANGED <<module, nonce, pure, cachedAt, modelname, family, sleeps,
                   credential, username, password, counters, cache,
                   faults, router>>

\* hub.login(username=u, password=p)
CallLogin(u, p) ==
    /\ Idle
    /\ stack' = LoginEnter(<<>>, u, p)
    /\ ret' = [Called("login") EXCEPT
                 !.ctx = [NoCtx EXCEPT !.username = u,
                                       !.credential = credential,
                                       !.cached = cache[AuthUserNameOid],
                                       !.session = Session]]
    /\ wire' = NoReq
    /\ UNCHANGED <<module, nonce, pure, cachedAt, modelname, family, sleeps,
                   credential, username, password, counters, cache,
                   faults, router>>

\* what snmp_get would do without its lru_cache
CallSnmpGetUncached(oid) ==
    /\ Idle
    /\ stack' = <<[fn |-> "snmp_get", pc |-> "get", oid |-> oid],
                  GetFrame("snmpGet", Retry401Default, Retry500Default,
                           <<oid>>)>>
    /\ ret' = [Called("snmp_get") EXCEPT
                 !.ctx = [NoCtx EXCEPT !.oid = oid, !.cached = cache[oid],
                                       !.credential = credential]]
    /\ wire' = NoReq
    /\ UNCHANGED <<module, nonce, pure, cachedAt, modelname, family, sleeps,
                   credential, username, password, counters, cache,
                   faults, router>>

\* hub.snmp_get(oid): the lru_cache answers for an OID it holds, without
\* calling the function
CallSnmpGet(oid) ==
    /\ Idle
    /\ IF cache[oid] # None
       THEN /\ stack' = <<>>
            /\ ret' = [Return("snmp_get", NoCall, <<>>) EXCEPT
                         !.op = "snmp_get", !.value = cache[oid],
                         !.ctx = [NoCtx EXCEPT
                                    !.oid = oid, !.cached = cache[oid],
                                    !.credential = credential]]
       ELSE /\ stack' = <<[fn |-> "snmp_get", pc |-> "get", oid |-> oid],
                          GetFrame("snmpGet", Retry401Default,
                                   Retry500Default, <<oid>>)>>
            /\ ret' = [Called("snmp_get") EXCEPT
                         !.ctx = [NoCtx EXCEPT
                                    !.oid = oid, !.cached = cache[oid],
                                    !.credential = credential]]
    /\ wire' = NoReq
    /\ UNCHANGED <<module, nonce, pure, cachedAt, modelname, family, sleeps,
                   credential, username, password, counters, cache,
                   faults, router>>

\* the OID a caller walks (the port forwarding table)
WalkOids == {"1.3.6.1.4.1.4115.1.20.1.1.4.12.1"}

\* hub.snmp_walk(oid)
CallSnmpWalk(oid) ==
    /\ Idle
    /\ stack' = <<[fn |-> "snmp_walk", pc |-> "get", oid |-> oid],
                  GetFrame("walk", Retry401Default, Retry500Default,
                           <<oid>>)>>
    /\ ret' = [Called("snmp_walk") EXCEPT !.ctx = [NoCtx EXCEPT !.oid = oid]]
    /\ wire' = NoReq
    /\ UNCHANGED <<module, nonce, pure, cachedAt, modelname, family, sleeps,
                   credential, username, password, counters, cache,
                   faults, router>>

\* what a logout that notified the router without testing is_loggedin
\* would do
CallLogoutUnguarded ==
    /\ Idle
    /\ stack' = LogoutEnter(<<>>)
    /\ ret' = Called("logout")
    /\ wire' = NoReq
    /\ UNCHANGED <<module, nonce, pure, cachedAt, modelname, family, sleeps,
                   credential, username, password, counters, cache,
                   faults, router>>

\* hub.logout()
CallLogout ==
    /\ Idle
    /\ IF is_loggedin
       THEN /\ stack' = LogoutEnter(<<>>)
            /\ ret' = Called("logout")
       ELSE /\ stack' = <<>>
            /\ ret' = [Return("logout", NoCall, <<>>)
                          EXCEPT !.op = "logout", !.ctx = NoCtx]
    /\ wire' = NoReq
    /\ UNCHANGED <<module, nonce, pure, cachedAt, modelname, family, sleeps,
                   credential, username, password, counters, cache,
                   faults, router>>

\* leaving `with hub:`; exc_type is None or the error raised by the body
CallExit(exc_type) ==
    /\ Idle
    /\ IF is_loggedin
       THEN /\ stack' = LogoutEnter(<<[fn |-> "__exit__", pc |-> "logout",
                                       exc_type |-> exc_type]>>)
            /\ ret' = Called("__exit__")
       ELSE /\ stack' = <<>>
            /\ ret' = ExitOutcome(exc_type,
                                  [Return("logout", NoCall, <<>>)
                                      EXCEPT !.op = "__exit__",
                                             !.ctx = NoCtx])
    /\ wire' = NoReq
    /\ UNCHANGED <<module, nonce, pure, cachedAt, modelname, family, sleeps,
                   credential, username, password, counters, cache,
                   faults, router>>

----------------------------------------------------------------------------
(* Hub of virginmedia_router.py: no retries, one request per operation *)

\* params(): a new nonce pair for every request
RouterParams == "fresh"

RouterInit ==
    [credential |-> None, username |-> None, password |-> None,
     pc |-> "idle", arg |-> <<>>, ret |-> NoRet, wire |-> NoReq]

RouterReturn(op) == [NoRet EXCEPT !.op = op, !.kind = "return", !.by = op]

RouterRaise(op, exc) ==
    [NoRet EXCEPT !.op = op, !.kind = "raise", !.by = op, !.exc = exc]

RouterIdle == module = "virginmedia_router" /\ router.pc = "idle"

\* hub.login(username=u, password=p), up to its request
RouterCallLogin(u, p) ==
    /\ RouterIdle
    /\ router' = [router EXCEPT !.pc = "login", !.arg = <<u, p>>,
                                !.ret = Called("login"), !.wire = NoReq]
    /\ UNCHANGED <<module, hubvars, pure>>

\* hub.logout(): clears the session first, then sends the request
RouterCallLogout ==
    /\ RouterIdle
    /\ router' =
          IF Truthy(router.credential)
          THEN [router EXCEPT !.credential = None, !.username = None,
                              !.password = None, !.pc = "logout",
                              !.arg = <<>>, !.ret = Called("logout"),
                              !.wire = NoReq]
          ELSE [router EXCEPT !.ret = RouterReturn("logout"),
                              !.wire = NoReq]
    /\ UNCHANGED <<module, hubvars, pure>>

\* _get of virginmedia_router.py with response r, and the rest of the
\* operation that called it
RouterRequest(r) ==
    /\ module = "virginmedia_router"
    /\ router.pc \in {"login", "logout"}
    /\ LET op == router.pc
           sent == [url |-> op, cookie |-> Cookies(router.credential),
                    arg |-> router.arg, nonce |-> RouterParams, first |-> op]
           exc == IF r.error # None THEN r.error
                  ELSE IF FinalError(r.status) # None
                  THEN FinalError(r.status)
                  ELSE IF op = "login" /\ (r.body = "" \/ ~IsB64Json(r.body))
                  THEN "LoginFailed"
                  ELSE None
           done == [router EXCEPT !.pc = "idle", !.wire = sent]
       IN  router' =
              IF exc # None
              THEN [done EXCEPT !.ret = RouterRaise(op, exc)]
              ELSE IF op = "login"
              THEN [done EXCEPT !.credential = r.body,
                                !.username = router.arg[1],
                                !.password = router.arg[2],
                                !.ret = RouterReturn(op)]
              ELSE [done EXCEPT !.ret = RouterReturn(op)]
    /\ UNCHANGED <<module, hubvars, pure>>

----------------------------------------------------------------------------
(* The specification *)

\* a Hub made by Hub() without arguments; no request sent, no sleep yet
HubInit ==
    /\ credential = None
    /\ username = None
    /\ password = None
    /\ modelname = None
    /\ family = None
    /\ counters = [c \in CounterNames |-> 0]
    /\ nonce = "_n=12345&_=1700000000000"
    /\ cache = [o \in Oids |-> None]
    /\ stack = <<>>
    /\ ret = NoRet
    /\ wire = NoReq
    /\ faults = 0
    /\ sleeps = [count |-> 0, secs |-> 0]
    /\ cachedAt = [o \in Oids |-> None]
    /\ router = RouterInit

Init ==
    /\ module \in {"virginmedia", "virginmedia_router"}
    /\ HubInit
    /\ pure = NoPure

Next ==
    \/ \E b \in GetBudgets : CallGet(b[1], b[2])
    \/ \E u \in Usernames \cup {None}, p \in Passwords : CallLogin(u, p)
    \/ CallLogout
    \/ \E e \in {None, "BodyError"} : CallExit(e)
    \/ \E oid \in Oids : CallSnmpGet(oid)
    \/ \E oid \in WalkOids : CallSnmpWalk(oid)
    \/ TakeResult
    \/ \E r \in Responses(IF stack # <<>> /\ Top.fn = "_get"
                          THEN Top.url ELSE "") : Request(r)
    \/ GetRelogged
    \/ SnmpGetResume
    \/ SnmpWalkResume
    \/ LoginResolved
    \/ LoginResume
    \/ LogoutResume
    \/ ExitResume
    \/ \E u \in Usernames, p \in Passwords : RouterCallLogin(u, p)
    \/ RouterCallLogout
    \/ \E r \in Responses(router.pc) : RouterRequest(r)

Spec == Init /\ [][Next]_vars

\* the steps of a running operation: a request gets its response or raises,
\* or a function resumes after the call it made
HubStep ==
    \/ \E r \in Responses(IF stack # <<>> /\ Top.fn = "_get"
                          THEN Top.url ELSE "") : Request(r)
    \/ GetRelogged
    \/ SnmpGetResume
    \/ SnmpWalkResume
    \/ LoginResolved
    \/ LoginResume
    \/ LogoutResume
    \/ ExitResume

\* the Hub runs synchronously: a running operation goes on as long as every
\* request returns a response or raises
FairSpec == Spec /\ WF_vars(HubStep)

----------------------------------------------------------------------------
(* snmp_walk's treatment of the response body, applied to every body of up *)
(* to MaxLines lines                                                        *)

\* the lines a walk body is made of: the injected line, other text, the
\* final "1":"Finish" entry, and entries that only resemble the artifacts
WalkAlphabet ==
    {TextLine(ErrorLineText), TextLine(Junk), Entry("1", "Finish"),
     Entry("1", "x"), Entry("2", "y"), Entry("2", ErrorLineText),
     Entry("3", "Finish")}

\* the entries of a JSON object have distinct keys
DistinctKeys(lines) ==
    \A i, j \in 1..Len(lines) :
        (i # j /\ lines[i].kind = "entry" /\ lines[j].kind = "entry")
            => lines[i].key # lines[j].key

WalkInputs ==
    {lines \in UNION {[1..n -> WalkAlphabet] : n \in 0..MaxLines} :
        DistinctKeys(lines)}

InitWalk ==
    /\ module = "virginmedia"
    /\ HubInit
    /\ pure \in {[NoPure EXCEPT !.fn = "snmp_walk", !.input = lines] :
                    lines \in WalkInputs}

\* snmp_walk processes the body it was given
WalkApply ==
    /\ pure.fn = "snmp_walk"
    /\ ~pure.done
    /\ pure' = [pure EXCEPT !.output = snmp_walk(pure.input), !.done = TRUE]
    /\ UNCHANGED <<module, hubvars, router>>

NextWalk == WalkApply

SpecWalk == InitWalk /\ [][NextWalk]_vars

----------------------------------------------------------------------------
(* The value codec: extract_ip, extract_ipv6, _extract_date and the        *)
(* attribute decoders, applied to encodings built from small alphabets.    *)
(* A Python str is a sequence of one-character strings.                    *)

HexLower == <<"0", "1", "2", "3", "4", "5", "6", "7", "8", "9",
              "a", "b", "c", "d", "e", "f">>

HexUpper == <<"0", "1", "2", "3", "4", "5", "6", "7", "8", "9",
              "A", "B", "C", "D", "E", "F">>

\* c is a digit of int(.., base): int accepts both letter cases
IsDigit(c, base) ==
    \E i \in 1..base : HexLower[i] = c \/ HexUpper[i] = c

\* the value of digit c
HexVal(c) == (CHOOSE i \in 1..16 : HexLower[i] = c \/ HexUpper[i] = c) - 1

\* int(s, base) does not raise ValueError
IsNumeral(s, base) ==
    s # <<>> /\ \A i \in 1..Len(s) : IsDigit(s[i], base)

RECURSIVE IntValue(_, _)
\* int(s, base) of a numeral s
IntValue(s, base) ==
    IF s = <<>>
    THEN 0
    ELSE IntValue(SubSeq(s, 1, Len(s) - 1), base) * base + HexVal(s[Len(s)])

RECURSIVE Str(_)
\* str(n) of an int n >= 0
Str(n) ==
    IF n < 10
    THEN <<HexLower[n + 1]>>
    ELSE Str(n \div 10) \o <<HexLower[(n % 10) + 1]>>

\* the slice s[a:b] for 0 <= a <= b
Slice(s, a, b) == SubSeq(s, a + 1, IF b < Len(s) THEN b ELSE Len(s))

RECURSIVE Range(_, _, _)
\* list(range(a, b, step)) for step > 0
Range(a, b, step) ==
    IF a >= b THEN <<>> ELSE <<a>> \o Range(a + step, b, step)

\* what a decoder produces: a value, None, or an exception
Value(v) == [error |-> None, absent |-> FALSE, value |-> v]

Absent == [error |-> None, absent |-> TRUE, value |-> <<>>]

Raised(e) == [error |-> e, absent |-> FALSE, value |-> <<>>]

\* extract_ip with the last octet taken from the third pair of digits
extract_ip_third(hexvalue) ==
    LET part == <<Slice(hexvalue, 1, 3), Slice(hexvalue, 3, 5),
                  Slice(hexvalue, 5, 7), Slice(hexvalue, 5, 7)>>
    IN  IF \E i \in 1..4 : ~IsNumeral(part[i], 16)
        THEN Raised("ValueError")
        ELSE Value(Str(IntValue(part[1], 16)) \o <<".">>
                   \o Str(IntValue(part[2], 16)) \o <<".">>
                   \o Str(IntValue(part[3], 16)) \o <<".">>
                   \o Str(IntValue(part[4], 16)))

extract_ip(hexvalue) ==
    LET part == <<Slice(hexvalue, 1, 3), Slice(hexvalue, 3, 5),
                  Slice(hexvalue, 5, 7), Slice(hexvalue, 7, 9)>>
    IN  IF \E i \in 1..4 : ~IsNumeral(part[i], 16)
        THEN Raised("ValueError")
        ELSE Value(Str(IntValue(part[1], 16)) \o <<".">>
                   \o Str(IntValue(part[2], 16)) \o <<".">>
                   \o Str(IntValue(part[3], 16)) \o <<".">>
                   \o Str(IntValue(part[4], 16)))

\* "$00000000000000000000000000000000"
Ipv6Zero == <<"$">> \o [i \in 1..32 |-> "0"]

\* a loop that stops one group early
Ipv6ChunksShort == Range(5, 26, 4)

\* the offsets extract_ipv6's loop visits
Ipv6Chunks == Range(5, 30, 4)

RECURSIVE Ipv6Append(_, _, _)
\* the loop of extract_ipv6: res after the offsets in chunks
Ipv6Append(res, hexvalue, chunks) ==
    IF chunks = <<>>
    THEN res
    ELSE Ipv6Append(res \o <<":">> \o Slice(hexvalue, chunks[1], chunks[1] + 4),
                    hexvalue, Tail(chunks))

extract_ipv6(hexvalue) ==
    IF hexvalue = Ipv6Zero
    THEN Absent
    ELSE Value(Ipv6Append(Slice(hexvalue, 1, 5), hexvalue, Ipv6Chunks))

\* calendar.isleap
IsLeap(y) == y % 4 = 0 /\ (y % 100 # 0 \/ y % 400 = 0)

DaysInMonth(y, m) ==
    IF m = 2 THEN (IF IsLeap(y) THEN 29 ELSE 28)
    ELSE IF m \in {4, 6, 9, 11} THEN 30 ELSE 31

\* datetime.datetime(y, m, d, h, mi, s) does not raise ValueError
IsDate(y, m, d, h, mi, s) ==
    /\ y \in 1..9999
    /\ m \in 1..12
    /\ d \in 1..DaysInMonth(y, m)
    /\ h \in 0..23
    /\ mi \in 0..59
    /\ s \in 0..59

\* datetime.datetime(y, m, d, h, mi, s) of fields that are numerals
datetime(f) ==
    IF \E i \in 1..6 : ~IsNumeral(f[i], 16)
    THEN Raised("ValueError")
    ELSE LET n == [i \in 1..6 |-> IntValue(f[i], 16)]
         IN  IF IsDate(n[1], n[2], n[3], n[4], n[5], n[6])
             THEN Value([year |-> n[1], month |-> n[2], day |-> n[3],
                         hour |-> n[4], minute |-> n[5], second |-> n[6]])
             ELSE Raised("ValueError")

\* _extract_date reading the second from the last two digits
extract_date_last(vmdate) ==
    datetime(<<Slice(vmdate, 1, 5), Slice(vmdate, 5, 7), Slice(vmdate, 7, 9),
               Slice(vmdate, 9, 11), Slice(vmdate, 11, 13),
               Slice(vmdate, 15, 17)>>)

extract_date(vmdate) ==
    datetime(<<Slice(vmdate, 1, 5), Slice(vmdate, 5, 7), Slice(vmdate, 7, 9),
               Slice(vmdate, 9, 11), Slice(vmdate, 11, 13),
               Slice(vmdate, 13, 15)>>)

\* "$0000000000000000"
DateZero == <<"$">> \o [i \in 1..16 |-> "0"]

wanIPv4LeaseExpiryDate(snmp_value) ==
    IF snmp_value = DateZero THEN Absent ELSE extract_date(snmp_value)

\* int(snmp_value) of the string the router gave
Int10(snmp_value) ==
    IF IsNumeral(snmp_value, 10)
    THEN Value(IntValue(snmp_value, 10))
    ELSE Raised("ValueError")

wanMTUSize(snmp_value) ==
    IF snmp_value = <<>> THEN Absent ELSE Int10(snmp_value)

lanDHCPEnabled(snmp_value) ==
    IF Int10(snmp_value).error # None
    THEN Int10(snmp_value)
    ELSE Value(Int10(snmp_value).value = 1)

lanDHCPv4LeaseTimeSecs(snmp_value) ==
    IF Int10(snmp_value).error # None
    THEN Int10(snmp_value)
    ELSE IF Int10(snmp_value).value = 0 THEN Absent ELSE Int10(snmp_value)

lanDHCPv6PrefixLength(snmp_value) == Int10(snmp_value)

lanDHCPv6LeaseTime(snmp_value) ==
    IF Int10(snmp_value).error # None
    THEN Int10(snmp_value)
    ELSE IF Int10(snmp_value).value = 0 THEN Absent ELSE Int10(snmp_value)

wanIPv4LeaseTimeSecsRemaining(snmp_value) == Int10(snmp_value)

NumericDecoders ==
    {"wanMTUSize", "lanDHCPEnabled", "lanDHCPv4LeaseTimeSecs",
     "lanDHCPv6PrefixLength", "lanDHCPv6LeaseTime",
     "wanIPv4LeaseTimeSecsRemaining"}

\* the attribute decoder called name, applied to snmp_value
Decode(name, snmp_value) ==
    CASE name = "wanMTUSize" -> wanMTUSize(snmp_value)
      [] name = "lanDHCPEnabled" -> lanDHCPEnabled(snmp_value)
      [] name = "lanDHCPv4LeaseTimeSecs" -> lanDHCPv4LeaseTimeSecs(snmp_value)
      [] name = "lanDHCPv6PrefixLength" -> lanDHCPv6PrefixLength(snmp_value)
      [] name = "lanDHCPv6LeaseTime" -> lanDHCPv6LeaseTime(snmp_value)
      [] name = "wanIPv4LeaseTimeSecsRemaining"
            -> wanIPv4LeaseTimeSecsRemaining(snmp_value)

\* two-digit and four-digit lowercase hex numerals
Hex2(n) == <<HexLower[(n \div 16) + 1], HexLower[(n % 16) + 1]>>

Hex4(n) == Hex2(n \div 256) \o Hex2(n % 256)

\* pairs of hex digits an IPv4 encoding is made of
IpPairs ==
    {Hex2(0), Hex2(4), Hex2(100), Hex2(168), Hex2(192), Hex2(194),
     <<"C", "2">>}

IpInputs ==
    {<<"$">> \o a \o b \o c \o d : a \in IpPairs, b \in IpPairs,
                                   c \in IpPairs, d \in IpPairs}

\* groups of four hex digits an IPv6 encoding is made of
Ipv6Groups == {Hex4(0), Hex4(1), Hex4(65152)}

RECURSIVE Concat(_)
Concat(seqs) == IF seqs = <<>> THEN <<>> ELSE seqs[1] \o Concat(Tail(seqs))

Ipv6Inputs == {<<"$">> \o Concat(g) : g \in [1..8 -> Ipv6Groups]}

\* timestamp encodings: the fields of valid and invalid dates, and the two
\* trailing digits
DateInputs ==
    {<<"$">> \o Hex4(y) \o Hex2(m) \o Hex2(d) \o Hex2(h) \o Hex2(mi)
            \o Hex2(s) \o Hex2(j) :
        y \in {0, 2018, 2020}, m \in {0, 2, 3, 13}, d \in {0, 14, 29, 30, 31},
        h \in {0, 16, 24}, mi \in {0, 7, 60}, s \in {0, 17, 60},
        j \in {0, 255}}

\* the values the router gives for a numeric OID
NumericInputs == {<<>>, <<"0">>, <<"1">>, <<"1", "5", "0", "0">>}

PureCall(f, x) == [NoPure EXCEPT !.fn = f, !.input = x]

InitCodec ==
    /\ module = "virginmedia"
    /\ HubInit
    /\ pure \in {PureCall("extract_ip", x) : x \in IpInputs}
          \cup {PureCall("extract_ipv6", x) : x \in Ipv6Inputs}
          \cup {PureCall("wanIPv4LeaseExpiryDate", x) : x \in DateInputs}
          \cup {PureCall(n, x) : n \in NumericDecoders, x \in NumericInputs}

ApplyExtractIp ==
    /\ pure.fn = "extract_ip"
    /\ ~pure.done
    /\ pure' = [pure EXCEPT !.output = extract_ip(pure.input), !.done = TRUE]
    /\ UNCHANGED <<module, hubvars, router>>

ApplyExtractIpv6 ==
    /\ pure.fn = "extract_ipv6"
    /\ ~pure.done
    /\ pure' = [pure EXCEPT !.output = extract_ipv6(pure.input),
                            !.done = TRUE]
    /\ UNCHANGED <<module, hubvars, router>>

ApplyLeaseExpiryDate ==
    /\ pure.fn = "wanIPv4LeaseExpiryDate"
    /\ ~pure.done
    /\ pure' = [pure EXCEPT !.output = wanIPv4LeaseExpiryDate(pure.input),
                            !.done = TRUE]
    /\ UNCHANGED <<module, hubvars, router>>

ApplyNumeric ==
    /\ pure.fn \in NumericDecoders
    /\ ~pure.done
    /\ pure' = [pure EXCEPT !.output = Decode(pure.fn, pure.input),
                            !.done = TRUE]
    /\ UNCHANGED <<module, hubvars, router>>

NextCodec ==
    \/ ApplyExtractIp
    \/ ApplyExtractIpv6
    \/ ApplyLeaseExpiryDate
    \/ ApplyNumeric

SpecCodec == InitCodec /\ [][NextCodec]_vars

----------------------------------------------------------------------------
(* Properties *)

Last(seq) == seq[Len(seq)]

\* a _get activation has just returned or raised
GetDone == module = "virginmedia" /\ ret.by = "_get" /\ ret.kind # "none"

\* C1: a _get entered with a credential and retry401 > 0 whose first
\* response is 401 re-authenticates (it calls login instead of ending on
\* that 401); and when the resent request then gets 200, _get returns that
\* 200 response and '_get_retries_401' has grown by exactly 1.
C1_Reauth401 ==
    (GetDone /\ ret.call.credin # None /\ ret.call.init401 > 0
        /\ ret.call.hist # <<>> /\ ret.call.hist[1] = 401)
    => /\ ret.call.relogins >= 1
       /\ ret.call.hist = <<401, 200>>
             => /\ ret.kind = "return"
                /\ ret.resp.status = 200
                /\ ret.call.c401out = ret.call.c401in + 1

\* C2: a _get with retry500 = 3 that receives three consecutive 500
\* responses goes on to a fourth request after exactly three backoff sleeps
\* of 1, 2 and 4 seconds; it returns a 200 that follows and raises an HTTP
\* error on a fourth consecutive 500.
C2_Backoff500 ==
    (GetDone /\ ret.call.init500 = 3 /\ ret.call.error = None
        /\ Len(ret.call.hist) >= 3
        /\ SubSeq(ret.call.hist, 1, 3) = <<500, 500, 500>>)
    => /\ Len(ret.call.hist) >= 4
       /\ SubSeq(ret.call.slept, 1, 3) = <<1, 2, 4>>
       /\ ret.call.hist = <<500, 500, 500, 200>>
             => ret.kind = "return" /\ ret.resp.status = 200
       /\ ret.call.hist = <<500, 500, 500, 500>>
             => ret.kind = "raise" /\ ret.exc = "HTTPError"

\* C3: a _get that ends on a 401 response it does not retry fails with
\* AccessDenied.
C3_AccessDenied ==
    (GetDone /\ ret.call.final = 401)
    => ret.kind = "raise" /\ ret.exc = "AccessDenied"

\* _get is about to send a request
Sending ==
    module = "virginmedia" /\ stack # <<>> /\ Top.fn = "_get"
    /\ Top.pc = "request"

\* C4: is_loggedin is true exactly when the credential is not None, the
\* credential is never an empty token, and every request _get sends
\* carries the current credential as its cookie when one is held and no
\* cookie when logged out.
C4_CredentialCookie ==
    [][/\ is_loggedin' <=> credential' # None
       /\ credential' # ""
       /\ Sending => /\ wire'.url = Top.url
                     /\ wire'.cookie =
                           IF is_loggedin THEN credential ELSE None]_vars

C4_Witness ==
    /\ wire.url = "checkConnType"
    /\ wire.cookie = "tokB"
    /\ credential = "tokB"
    /\ ret.kind = "return"

\* C5: once logout() has returned or raised, in either module's Hub, the
\* credential, the username and the password are all None.
C5_LogoutClears ==
    /\ (module = "virginmedia" /\ ret.by = "logout" /\ ret.kind # "none")
          => credential = None /\ username = None /\ password = None
    /\ (module = "virginmedia_router" /\ router.ret.by = "logout"
           /\ router.ret.kind # "none")
          => /\ router.credential = None
             /\ router.username = None
             /\ router.password = None

C5_Witness ==
    /\ ret.by = "logout"
    /\ ret.kind = "raise"
    /\ ret.exc \in TransportErrors
    /\ ret.call.url = "logout"
    /\ credential = None

\* the notification request of the logout that has just ended failed
NotificationFailed ==
    /\ module = "virginmedia"
    /\ ret.by = "logout"
    /\ ret.kind # "none"
    /\ ret.call.url = "logout"
    /\ ret.call.error # None \/ ret.call.final >= 400

\* C6 as stated: a logout() whose notification request fails completes
\* normally.
C6_LogoutIgnoresFailure == NotificationFailed => ret.kind = "return"

\* C6 amended: a logout() whose notification request fails clears the
\* session and raises that failure to its caller: the HTTP error of an
\* error status, or the transport exception.
C6_LogoutRaisesFailure ==
    NotificationFailed
    => /\ ret.kind = "raise"
       /\ ret.exc = IF ret.call.error # None THEN ret.call.error
                    ELSE "HTTPError"
       /\ credential = None

C6_Witness ==
    /\ NotificationFailed
    /\ ret.exc = "HTTPError"
    /\ ret.call.final = 404
    /\ stack = <<>>

\* C7: a logout() called while not logged in sends no request and leaves
\* the session as it was, in either module's Hub; so does a logout()
\* called directly after another logout().
C7_LogoutNoop ==
    [][/\ (Idle /\ ret'.op = "logout"
             /\ (~is_loggedin \/ (ret.by = "logout" /\ ret.kind # "none")))
          => /\ stack' = <<>>
             /\ wire' = NoReq
             /\ ret'.kind = "return"
             /\ UNCHANGED <<credential, username, password, cache>>
       /\ (RouterIdle /\ router'.ret.op = "logout" /\ router' # router
             /\ (router.credential = None
                   \/ (router.ret.by = "logout"
                         /\ router.ret.kind # "none")))
          => /\ router'.pc = "idle"
             /\ router'.wire = NoReq
             /\ router'.ret.kind = "return"
             /\ router'.credential = router.credential
             /\ router'.username = router.username
             /\ router'.password = router.password]_vars

C7_Witness ==
    /\ ret.op = "logout"
    /\ ret.by = "logout"
    /\ ret.kind = "return"
    /\ ret.call = NoCall
    /\ wire = NoReq
    /\ faults > 0

\* C8: a login() whose request returned a response with an empty body, or
\* with a body that is not base64-encoded JSON, raises LoginFailed.
C8_LoginFailed ==
    (module = "virginmedia" /\ ret.by = "login" /\ ret.kind # "none"
        /\ ret.resp.status # 0
        /\ (ret.resp.body = "" \/ ~IsB64Json(ret.resp.body)))
    => ret.kind = "raise" /\ ret.exc = "LoginFailed"

\* C9: after a successful login the credential is the body of the login
\* response and the stored username and password are the ones sent in the
\* login request; and a re-login started by _get sends the stored username
\* and password.
C9_LoginStores ==
    /\ (module = "virginmedia" /\ ret.by = "login" /\ ret.kind = "return")
          => /\ credential = ret.resp.body
             /\ wire.url = "login"
             /\ <<username, password>> = wire.arg
             /\ <<username, password>> = ret.arg
    /\ \A i \in 1 .. Len(stack) :
          (stack[i].fn = "_get" /\ stack[i].pc = "relogin")
          => IF Len(stack) = i
             THEN ret.by = "login" /\ ret.kind # "none"
             ELSE /\ stack[i + 1].fn = "login"
                  /\ stack[i + 1].username = username
                  /\ stack[i + 1].password = password
                  /\ (Len(stack) = i + 2 /\ wire.url = "login")
                        => wire.arg = <<username, password>>

C9_Witness ==
    /\ ret.by = "login"
    /\ ret.kind = "return"
    /\ Len(stack) = 1
    /\ stack[1].pc = "relogin"
    /\ credential = "tokB"
    /\ ret.call.credin = "tokA"
    /\ username = "guest"
    /\ password = "secret"

\* C10: when the logout() run by __exit__ fails, __exit__ raises that
\* failure if the body raised nothing, and suppresses it (returns normally)
\* if the body raised.
C10_ExitSuppresses ==
    (module = "virginmedia" /\ ret.by = "__exit__" /\ ret.kind # "none"
        /\ ret.cause # None)
    => IF ret.arg[1] = None
       THEN ret.kind = "raise" /\ ret.exc = ret.cause
       ELSE ret.kind = "return"

\* C11 (as stated): _get returns a response to its caller only when the final
\* status is 2xx; every other final status ends the call with an HTTPError.
C11_Only2xxReturned ==
    (GetDone /\ ret.call.final # 0) =>
        IF ret.call.final \in 200..299
        THEN ret.kind = "return"
        ELSE ret.kind = "raise" /\ ret.exc = "HTTPError"

\* C11 (amended): _get fails with an HTTPError exactly when the final status
\* is in 400..599; every other final status (2xx, and 3xx such as 302) is
\* returned to the caller with its response.
C11_ErrorStatusRaises ==
    (GetDone /\ ret.call.final # 0) =>
        IF ret.call.final \in 400..599
        THEN ret.kind = "raise" /\ ret.exc = "HTTPError"
        ELSE ret.kind = "return" /\ ret.resp.status = ret.call.final

\* a _get has returned a response whose status is 302
C11_Witness ==
    /\ GetDone
    /\ ret.kind = "return"
    /\ ret.call.final = 302
    /\ ret.resp.status = 302

\* number of occurrences of x in seq
Count(seq, x) == Cardinality({i \in 1..Len(seq) : seq[i] = x})

\* the _get activations on the call stack
GetFrames == {i \in 1..Len(stack) : stack[i].fn = "_get"}

\* C12: within one _get call the re-login retries never exceed retry401 and
\* the backoff retries never exceed retry500, for every interleaving of
\* responses; each budget is consumed by responses of its own kind only.
C12_RetryBudgets ==
    /\ \A i \in GetFrames :
          LET f == stack[i]
          IN  /\ f.call.relogins <= f.call.init401
              /\ Len(f.call.slept) <= f.call.init500
              /\ f.call.relogins <= Count(f.call.hist, 401)
              /\ Len(f.call.slept) <= Count(f.call.hist, 500)
              /\ f.retry401 = f.call.init401 - Count(f.call.hist, 401)
              /\ f.retry500 = f.call.init500 - Count(f.call.hist, 500)
    /\ GetDone =>
          /\ ret.call.relogins <= ret.call.init401
          /\ Len(ret.call.slept) <= ret.call.init500
          /\ ret.call.relogins <= Count(ret.call.hist, 401)
          /\ Len(ret.call.slept) <= Count(ret.call.hist, 500)

\* a _get with budgets 2 and 2 has returned after one re-login and one backoff
C12_Witness ==
    /\ GetDone
    /\ ret.kind = "return"
    /\ ret.call.init401 = 2
    /\ ret.call.init500 = 2
    /\ ret.call.relogins = 1
    /\ Len(ret.call.slept) = 1

\* the sleeps of a _get activation double from the base
Doubling(slept) == \A k \in 1..Len(slept) : slept[k] = SleepBase * 2 ^ (k - 1)

\* C14: within one _get call the k-th backoff sleep lasts 2^(k-1) seconds,
\* whatever 401 re-authentications come between the 500 responses.
C14_SleepDoubles ==
    /\ \A i \in GetFrames :
          /\ Doubling(stack[i].call.slept)
          /\ stack[i].sleep = SleepBase * 2 ^ Len(stack[i].call.slept)
    /\ GetDone => Doubling(ret.call.slept)

\* a _get slept 1 s, re-authenticated on a 401, slept 2 s and returned
C14_Witness ==
    /\ GetDone
    /\ ret.kind = "return"
    /\ ret.call.hist = <<500, 401, 500, 200>>
    /\ ret.call.relogins = 1
    /\ ret.call.slept = <<1, 2>>

Max0(n) == IF n > 0 THEN n ELSE 0

\* steps a re-login takes at most: its request loop (retry401 = 0, the
\* default retry500), the resumption of login and the resumption of _get
ReloginCost == Retry500Default + 3

\* upper bound on the steps a frame can still take or cause
FrameWeight(f) ==
    CASE f.fn = "_get" ->
             1 + Max0(f.retry500 - 1) + ReloginCost * Max0(f.retry401 - 1)
               + (IF f.pc = "relogin" THEN 1 ELSE 0)
      [] f.fn = "login" ->
             IF f.pc = "resolve" THEN Retry500Default + 2 ELSE 1
      [] OTHER -> 1

RECURSIVE Measure(_)
\* upper bound on the steps the running operation can still take
Measure(stk) ==
    IF stk = <<>> THEN 0
    ELSE FrameWeight(stk[Len(stk)]) + Measure(SubSeq(stk, 1, Len(stk) - 1))

\* the requests one activation of _get may send, given its budgets
RequestBound(call) == 1 + Max0(call.init401 - 1) + Max0(call.init500 - 1)

\* C13: every _get call, with the re-logins it triggers, terminates within a
\* number of requests bounded by its budgets: every step of a running
\* operation decreases a natural-valued measure that starts as a function of
\* the budgets, and no activation sends more requests than its budgets allow.
C13_GetTerminates ==
    [][/\ stack # <<>> => /\ Measure(stack') < Measure(stack)
                          /\ Measure(stack') >= 0
       /\ \A i \in GetFrames :
             Len(stack[i].call.hist) <= RequestBound(stack[i].call)
       /\ GetDone => Len(ret.call.hist) <= RequestBound(ret.call)]_vars

\* under FairSpec every running operation ends
EventuallyReturns == (stack # <<>>) ~> (stack = <<>>)

\* a _get with the default budgets ended after three requests and one re-login
C13_Witness ==
    /\ GetDone
    /\ ret.call.init401 = Retry401Default
    /\ ret.call.init500 = Retry500Default
    /\ ret.call.relogins = 1
    /\ Len(ret.call.hist) = 3
    /\ stack = <<>>

\* C16 (as stated): no operation modifies the nonce pair made by the
\* constructor, and every HTTP request the Hub issues carries it.
C16_NonceOnEveryRequest ==
    [][/\ nonce' = nonce
       /\ Sending => wire'.nonce = nonce]_vars

\* C16 (amended): no operation modifies the nonce pair; every request to
\* login, logout, snmpGet and walk carries it, also when re-sent after a
\* retry or sent by a re-login, and the requests to the other endpoints
\* (checkConnType) carry no nonce.
C16_NonceOnSessionRequests ==
    [][/\ nonce' = nonce
       /\ Sending =>
             wire'.nonce =
                IF wire'.url \in {"login", "logout", "snmpGet", "walk"}
                THEN nonce ELSE None]_vars

\* the login request of a re-login inside snmp_walk carried the nonce pair
C16_Witness ==
    /\ module = "virginmedia"
    /\ wire.first = "walk"
    /\ wire.url = "login"
    /\ wire.nonce = nonce
    /\ nonce # None

\* the running operation is a login() called without a username
LoginNoUser ==
    module = "virginmedia" /\ ret.op = "login" /\ ~Truthy(ret.ctx.username)

\* login() itself (not a re-login of some _get) is about to send its request
TheLoginRequest ==
    Sending /\ Len(stack) = 2 /\ stack[1].fn = "login" /\ Top.url = "login"

\* login() has failed because its user name resolution failed
ResolutionFailed ==
    /\ LoginNoUser
    /\ stack = <<>>
    /\ ret.kind = "raise"
    /\ ret.call.url = "snmpGet"

\* C17 (as stated): login() without a username first sends the SNMP get of
\* the admin-user-name OID and only then its login request, whose arg holds
\* the resolved name; if the resolution fails no login request is sent and
\* the session is unauthenticated.
C17_AlwaysResolves ==
    [][LoginNoUser =>
          /\ TheLoginRequest =>
                /\ wire.first = "snmpGet"
                /\ Top.arg[1] = cache[AuthUserNameOid]
          /\ ResolutionFailed' =>
                /\ wire'.url # "login"
                /\ credential' = None]_vars

\* C17 (amended): login() without a username, when snmp_get holds no cached
\* value for the admin-user-name OID, first sends the SNMP get and only then
\* its login request, whose arg holds the resolved name; when the value is
\* cached it sends no SNMP get and the login request holds the cached name.
\* On a Hub that is not logged in, a failed resolution sends no login
\* request and leaves the session unauthenticated.
C17_ResolvesUnlessCached ==
    [][LoginNoUser =>
          /\ TheLoginRequest =>
                IF ret.ctx.cached = None
                THEN /\ wire.first = "snmpGet"
                     /\ cache[AuthUserNameOid] # None
                     /\ Top.arg[1] = cache[AuthUserNameOid]
                ELSE /\ wire.first \in {"", "login"}
                     /\ Top.arg[1] = ret.ctx.cached
          /\ (ret.ctx.credential = None /\ ret.ctx.cached = None
              /\ stack' # <<>> /\ stack'[1].pc = "resolve") =>
                /\ wire'.url \in {"", "snmpGet"}
                /\ credential' = None
          /\ (ret.ctx.credential = None /\ ResolutionFailed') =>
                /\ wire'.url = "snmpGet"
                /\ wire'.first = "snmpGet"
                /\ credential' = None]_vars

\* login(None, ...) on a new Hub resolved "guest" and logged in with it
C17_Witness ==
    /\ LoginNoUser
    /\ ret.ctx.cached = None
    /\ ret.by = "login"
    /\ ret.kind = "return"
    /\ wire.first = "snmpGet"
    /\ wire.url = "login"
    /\ wire.arg[1] = "guest"
    /\ username = "guest"
    /\ credential # None

\* the running operation has raised the decode error of json.loads
DecodeFailed ==
    module = "virginmedia" /\ ret.kind = "raise" /\ ret.exc = "ValueError"

\* the _get of snmp_gets or of snmp_walk has returned a response
Exchanged ==
    /\ module = "virginmedia"
    /\ stack # <<>>
    /\ Top.fn \in {"snmp_get", "snmp_walk"}
    /\ ret.by = "_get"
    /\ ret.kind = "return"

\* C18: when the snmpGet or walk request returns a successful status with a
\* body that is not JSON, the operation raises the decode error right after
\* that exchange; neither then nor while the error propagates is a request
\* sent again or a re-login made.
C18_DecodeNotRetried ==
    [][/\ (Exchanged /\ ret.resp.body = Junk) =>
             /\ DecodeFailed'
             /\ ret'.by = Top.fn
             /\ stack' = Pop
             /\ wire' = wire
             /\ credential' = credential
       /\ (DecodeFailed' /\ ~DecodeFailed) =>
             /\ Exchanged
             /\ ret.resp.status \in OkStatuses
             /\ Last(ret.call.hist) = ret.resp.status
             /\ Count(ret.call.hist, 200) + Count(ret.call.hist, 302) = 1
       /\ (DecodeFailed /\ stack # <<>>) =>
             /\ DecodeFailed'
             /\ Len(stack') < Len(stack)
             /\ wire' = wire
             /\ credential' = credential]_vars

\* a logged-in Hub's snmp_walk raised the decode error after one exchange
C18_Witness ==
    /\ DecodeFailed
    /\ ret.by = "snmp_walk"
    /\ stack = <<>>
    /\ wire.url = "walk"
    /\ ret.call.hist = <<200>>
    /\ credential # None

\* snmp_get(oid) is being called by the program
SnmpGetCalled == Idle /\ ret'.op = "snmp_get"

\* snmp_get's function body is about to finish
SnmpGetFinishing ==
    /\ module = "virginmedia"
    /\ stack # <<>>
    /\ Top.fn = "snmp_get"
    /\ ret.kind # "none"

\* C19: a successful snmp_get(oid) caches its value; a later snmp_get of the
\* same OID returns that value and sends no HTTP request; a snmp_get that
\* failed caches nothing, so the next call for the OID sends a request.
C19_SnmpGetCached ==
    [][/\ SnmpGetCalled =>
             IF cache[ret'.ctx.oid] # None
             THEN /\ stack' = <<>>
                  /\ ret'.kind = "return"
                  /\ ret'.value = cache[ret'.ctx.oid]
                  /\ wire' = NoReq
                  /\ cache' = cache
             ELSE /\ Sending'
                  /\ Top'.url = "snmpGet"
                  /\ cache' = cache
       /\ SnmpGetFinishing =>
             /\ cache[Top.oid] = None
             /\ IF ret'.kind = "return"
                THEN /\ ret'.value = JsonValue(ret.resp.body)
                     /\ cache' = [cache EXCEPT ![Top.oid] = ret'.value]
                ELSE cache' = cache
       /\ \A o \in Oids : cache[o] # None => cache'[o] = cache[o]
       /\ cache' # cache => SnmpGetFinishing]_vars

\* a second snmp_get of the OID returned the cached "guest" with no request
C19_Witness ==
    /\ module = "virginmedia"
    /\ ret.op = "snmp_get"
    /\ ret.ctx.cached = "guest"
    /\ ret.kind = "return"
    /\ ret.value = "guest"
    /\ wire = NoReq
    /\ stack = <<>>

\* a line the router adds to a walk body: the injected text, or the final
\* "1":"Finish" entry
Artifact(x) == x = TextLine(ErrorLineText) \/ x = Entry("1", "Finish")

\* the body with those lines removed
Cleaned(lines) == SelectSeq(lines, LAMBDA x : ~Artifact(x))

RECURSIVE Split(_, _)
\* the pieces of s between the occurrences of sep
Split(s, sep) ==
    IF \A i \in 1..Len(s) : s[i] # sep
    THEN <<s>>
    ELSE LET i == CHOOSE k \in 1..Len(s) :
                      s[k] = sep /\ \A j \in 1..(k - 1) : s[j] # sep
         IN  <<SubSeq(s, 1, i - 1)>> \o Split(SubSeq(s, i + 1, Len(s)), sep)

\* the k-th pair of hex digits of an IPv4 encoding, and its value
IpPair(s, k) == <<s[2 * k], s[2 * k + 1]>>

PairValue(p) == 16 * HexVal(p[1]) + HexVal(p[2])

\* the lowercase spelling of hex digits
Lowercase(s) == [i \in 1..Len(s) |-> HexLower[HexVal(s[i]) + 1]]

\* extract_ip has decoded an encoding
IpDecoded == pure.fn = "extract_ip" /\ pure.done

\* the result is four decimal octets in 0..255, the k-th being the value of
\* the k-th pair of hex digits
IpOctets ==
    /\ pure.output.error = None
    /\ ~pure.output.absent
    /\ LET part == Split(pure.output.value, ".")
       IN  /\ Len(part) = 4
           /\ \A k \in 1..4 :
                /\ IsNumeral(part[k], 10)
                /\ IntValue(part[k], 10) \in 0..255
                /\ IntValue(part[k], 10) = PairValue(IpPair(pure.input, k))
                /\ part[k] = Str(IntValue(part[k], 10))

\* the octets of the result written again as 2-digit hex pairs
IpReencoded ==
    LET part == Split(pure.output.value, ".")
    IN  Hex2(IntValue(part[1], 10)) \o Hex2(IntValue(part[2], 10))
            \o Hex2(IntValue(part[3], 10)) \o Hex2(IntValue(part[4], 10))

\* "$c2a80464", "$c0a80464", "192.168.4.100" and "194.168.4.100"
IpC2 == <<"$", "c", "2", "a", "8", "0", "4", "6", "4">>

IpC0 == <<"$", "c", "0", "a", "8", "0", "4", "6", "4">>

Ip192 == <<"1", "9", "2", ".", "1", "6", "8", ".", "4", ".", "1", "0", "0">>

Ip194 == <<"1", "9", "4", ".", "1", "6", "8", ".", "4", ".", "1", "0", "0">>

IpExample == pure.input = IpC2 => pure.output.value = Ip192

Ipv6Decoded == pure.fn = "extract_ipv6" /\ pure.done

\* the k-th group of four hex digits of an IPv6 encoding
Ipv6Group(s, k) == SubSeq(s, 4 * k - 2, 4 * k + 1)

\* C22: for every encoding '$' + 32 hex digits, extract_ipv6 returns None
\* exactly when all 32 digits are zero, and otherwise the 8 groups of 4 hex
\* digits of the encoding, in order, joined by colons, none of them
\* shortened or left out.
C22_Ipv6Groups ==
    Ipv6Decoded
    => /\ pure.output.error = None
       /\ pure.output.absent <=> \A i \in 2..33 : pure.input[i] = "0"
       /\ ~pure.output.absent
             => LET part == Split(pure.output.value, ":")
                IN  /\ Len(pure.output.value) = 39
                    /\ Len(part) = 8
                    /\ \A k \in 1..8 : part[k] = Ipv6Group(pure.input, k)
                    /\ Concat(part) = Tail(pure.input)

\* an address with zero groups in the middle ("fe80:0000:...:0001") decoded
C22_Witness ==
    /\ Ipv6Decoded
    /\ ~pure.output.absent
    /\ Ipv6Group(pure.input, 1) = Hex4(65152)
    /\ \A k \in 2..7 : Ipv6Group(pure.input, k) = Hex4(0)
    /\ Ipv6Group(pure.input, 8) = Hex4(1)
    /\ Len(pure.output.value) = 39


\* the timestamp decoder has decoded an encoding
DateDecoded == pure.fn = "wanIPv4LeaseExpiryDate" /\ pure.done

\* the 4/2/2/2/2/2-digit fields of a timestamp encoding, as numbers
DateFields(s) ==
    [year |-> 256 * PairValue(<<s[2], s[3]>>) + PairValue(<<s[4], s[5]>>),
     month |-> PairValue(<<s[6], s[7]>>),
     day |-> PairValue(<<s[8], s[9]>>),
     hour |-> PairValue(<<s[10], s[11]>>),
     minute |-> PairValue(<<s[12], s[13]>>),
     second |-> PairValue(<<s[14], s[15]>>)]

\* the fields of s are those of a date of the calendar
IsDateEncoding(s) ==
    LET f == DateFields(s)
    IN  IsDate(f.year, f.month, f.day, f.hour, f.minute, f.second)

\* C23: the timestamp decoder maps '$0000000000000000' to None, neither a
\* date nor an error, and every other encoding of a valid date to the
\* date-time made of its 4/2/2/2/2/2-digit fields, whatever the trailing 2
\* digits are.
C23_DateFields ==
    DateDecoded
    => /\ pure.input = DateZero
             => pure.output.error = None /\ pure.output.absent
       /\ (pure.input # DateZero /\ IsDateEncoding(pure.input))
             => /\ pure.output.error = None
                /\ ~pure.output.absent
                /\ pure.output.value = DateFields(pure.input)

\* "$07e2030e100711ff" decoded to 2018-03-14 16:07:17
C23_Witness ==
    /\ DateDecoded
    /\ pure.input = <<"$">> \o Hex4(2018) \o Hex2(3) \o Hex2(14) \o Hex2(16)
                           \o Hex2(7) \o Hex2(17) \o Hex2(255)
    /\ pure.output.error = None
    /\ ~pure.output.absent
    /\ pure.output.value.year = 2018
    /\ pure.output.value.second = 17


\* a numeric attribute decoder has decoded the router's value
NumericDecoded == pure.fn \in NumericDecoders /\ pure.done

\* C24: every numeric attribute decoder returns None, and raises nothing,
\* when the router's value for its OID is the empty string.
C24_EmptyIsAbsent ==
    (NumericDecoded /\ pure.input = <<>>)
    => pure.output.error = None /\ pure.output.absent


\* _get is about to send its request again after a re-login
Resending ==
    Sending /\ Top.call.hist # <<>> /\ Last(Top.call.hist) = 401

\* C25: when _get re-authenticates after a 401, the re-login has completed
\* before the request is sent again (the last request sent was the login
\* request and login has stored its response body), and the request sent
\* again carries that new credential as its cookie.
C25_ResendCarriesNewCredential ==
    [][Resending => /\ Top.call.relogged # None
                    /\ wire.url = "login"
                    /\ credential = Top.call.relogged
                    /\ wire'.url = Top.url
                    /\ wire'.cookie = Top.call.relogged]_vars

\* a _get entered with one credential got 401, re-authenticated, and its
\* second request carried the other credential
C25_Witness ==
    /\ GetDone
    /\ ret.kind = "return"
    /\ ret.call.hist = <<401, 200>>
    /\ ret.call.credin = "tokA"
    /\ ret.call.relogged = "tokB"
    /\ wire.cookie = "tokB"


\* a re-login started by a _get is in progress
Relogging == \E i \in GetFrames : stack[i].pc = "relogin"

\* the login a _get called on a 401 has raised, and _get resumes
ReloginFailed ==
    module = "virginmedia" /\ stack # <<>> /\ Top.fn = "_get"
    /\ Top.pc = "relogin" /\ ret.kind = "raise"

\* the login a _get called on a 401 has returned, and _get resumes
ReloginReturned ==
    module = "virginmedia" /\ stack # <<>> /\ Top.fn = "_get"
    /\ Top.pc = "relogin" /\ ret.kind = "return"

\* C26: when the re-login a _get made on a 401 fails, _get ends with the
\* login's exception without sending another request or counting a retry;
\* and from the 401 to that point the credential, username and password
\* are changed only by a login that returns, and '_get_retries_401' only by
\* a re-login that returned, so a failed re-login leaves them all as they
\* were.
C26_FailedReloginPropagates ==
    [][/\ ReloginFailed
          => /\ stack' = Pop
             /\ ret'.kind = "raise"
             /\ ret'.by = "_get"
             /\ ret'.exc = ret.exc
             /\ ret'.call.hist = Top.call.hist
             /\ wire' = wire
             /\ counters' = counters
             /\ UNCHANGED <<credential, username, password>>
       /\ (Relogging /\ ~(ret'.by = "login" /\ ret'.kind = "return"))
          => UNCHANGED <<credential, username, password>>
       /\ (Relogging /\ ~ReloginReturned)
          => counters'["_get_retries_401"] = counters["_get_retries_401"]
      ]_vars

\* a logged-in _get got 401, its re-login got an empty body, and _get
\* raised LoginFailed after that one request, the session as before
C26_Witness ==
    /\ GetDone
    /\ ret.kind = "raise"
    /\ ret.exc = "LoginFailed"
    /\ ret.call.hist = <<401>>
    /\ ret.call.relogins = 1
    /\ ret.call.credin # None
    /\ credential = ret.call.credin
    /\ ret.call.c401out = ret.call.c401in
    /\ wire.url = "login"


\* a login() called on the Hub has failed
LoginFailedDone ==
    module = "virginmedia" /\ ret.op = "login" /\ stack = <<>>
    /\ ret.kind = "raise"

\* a login() called on the Hub is running
InLogin == module = "virginmedia" /\ ret.op = "login" /\ stack # <<>>

\* the login() could not re-authenticate while resolving the username: it
\* was given a username, or the name was cached, or the Hub held no
\* credential
NoResolutionRelogin ==
    Truthy(ret.ctx.username) \/ ret.ctx.cached # None
        \/ ret.ctx.credential = None

\* C27 as stated: a login() that fails leaves _credential, _username,
\* _password, _modelname and _family exactly as they were before the call.
C27_FailedLoginRestores == LoginFailedDone => Session = ret.ctx.session

\* C27, amended: while a login() runs, the five fields are changed only by
\* a login that returns; a login() that fails and made no username lookup
\* on a logged-in Hub leaves them exactly as they were before the call.
C27_FailedLoginKeepsSession ==
    [][/\ (InLogin /\ ~(ret'.by = "login" /\ ret'.kind = "return"))
          => UNCHANGED <<credential, username, password, modelname, family>>
       /\ (LoginFailedDone' /\ NoResolutionRelogin')
          => Session' = ret'.ctx.session
      ]_vars

\* a login('admin', ..) on a logged-in Hub failed on its response body and
\* the Hub still holds the session it had
C27_Witness ==
    /\ LoginFailedDone
    /\ ret.ctx.credential # None
    /\ Truthy(ret.ctx.username)
    /\ ret.exc \in {"LoginFailed", UndecodableError}
    /\ Session = ret.ctx.session
    /\ credential # None


\* the requests of login and logout
SessionUrls == {"login", "logout"}

\* the _get activations that are waiting for their re-login
ReloginFrames == {i \in GetFrames : stack[i].pc = "relogin"}

\* C28: a 401 response to the login or the logout request ends that
\* request: its _get never starts a re-login and raises after the 401, also
\* when the session holds a credential; so at most one re-login is in
\* progress at any time and a re-login never starts another.
C28_LoginLogout401Terminal ==
    /\ \A i \in GetFrames :
          stack[i].url \in SessionUrls
          => /\ stack[i].pc # "relogin"
             /\ stack[i].call.relogins = 0
             /\ Count(stack[i].call.hist, 401) = 0
    /\ Cardinality(ReloginFrames) <= 1
    /\ \A i \in ReloginFrames :
          \A j \in (i + 1)..Len(stack) :
              stack[j].fn = "_get" => stack[j].url = "login"
    /\ (GetDone /\ ret.call.url \in SessionUrls
            /\ Count(ret.call.hist, 401) > 0)
       => /\ ret.kind = "raise"
          /\ Last(ret.call.hist) = 401
          /\ Count(ret.call.hist, 401) = 1
          /\ ret.call.relogins = 0
          /\ ret.call.final = 401

\* the login request of a re-login got 401 while the session held a
\* credential, and its _get raised without another login
C28_Witness ==
    /\ GetDone
    /\ ret.call.url = "login"
    /\ ret.call.credin # None
    /\ ret.call.hist = <<401>>
    /\ ret.call.relogins = 0
    /\ ret.kind = "raise"
    /\ ReloginFrames # {}


\* the step belongs to login, logout or a re-login: it resumes one of them,
\* or sends or answers their request
SessionStep ==
    module = "virginmedia" /\ stack # <<>>
    /\ \/ Top.fn \in {"login", "logout"}
       \/ Top.fn = "_get" /\ (Top.pc = "relogin" \/ Top.url \in SessionUrls)

\* C29: no step of logout, login or a re-login, and no step that changes
\* the session, changes what snmp_get has cached; a snmp_get of an OID
\* cached under another session (before a logout, a login or a re-login)
\* returns the cached value and sends no request, whatever the router
\* would answer now.
C29_CacheSurvivesSession ==
    [][/\ SessionStep => cache' = cache
       /\ Session' # Session => cache' = cache
       /\ (cache' = cache /\ cachedAt' = cachedAt) \/ SnmpGetFinishing
       /\ \A o \in Oids :
             (SnmpGetCalled /\ ret'.ctx.oid = o /\ cache[o] # None
                 /\ cachedAt[o] # credential)
             => /\ ret'.kind = "return"
                /\ ret'.value = cache[o]
                /\ stack' = <<>>
                /\ wire' = NoReq
                /\ faults' = faults
      ]_vars

\* the value cached under credential tokA was returned, without a request,
\* to a Hub whose session has since become tokB
C29_Witness ==
    /\ module = "virginmedia"
    /\ ret.op = "snmp_get"
    /\ ret.kind = "return"
    /\ ret.ctx.cached = "guest"
    /\ ret.value = "guest"
    /\ cachedAt[ret.ctx.oid] = "tokA"
    /\ credential = "tokB"
    /\ wire = NoReq
    /\ stack = <<>>


\* C30: at every moment '_get_retries_500_sleep_secs' is the number of
\* seconds slept in 500 backoffs so far and '_get_retries_500' is the
\* number of those sleeps.
C30_SleepCounters ==
    /\ counters["_get_retries_500_sleep_secs"] = sleeps.secs
    /\ counters["_get_retries_500"] = sleeps.count

====
